---- MODULE Spec2Model ----
(***************************************************************************)
(* add_file_to_xcode.py: a linear script that loads an Xcode project       *)
(* manifest, selects a build target, resolves the group chain              *)
(* PodPeace/Views/Episode, registers one file and saves the manifest.     *)
(* The pbxproj library is outside the repository; its operations are       *)
(* modelled by what the script's specification says of them.               *)
(***************************************************************************)
EXTENDS Integers, Sequences, FiniteSets

\* ------------------------------------------------------------- bounds
MaxTargets == 3
MaxRuns == 2

\* ---------------------------------------------------------- constants
file_path == "PodPeace/Views/Episode/EpisodeDetailView.swift"
MainName == "PodPeace"
None == 0
TargetNames == {"PodPeace", "PodPeaceTests", "Widget"}

\* A manifest that load() cannot parse (missing, malformed or truncated).
BadManifest == [state |-> "bad", targets |-> <<>>, groups |-> {}, files |-> {}]
\* The value of `project` before line 8 has run.
NoProject == [state |-> "unloaded", targets |-> <<>>, groups |-> {}, files |-> {}]

\* ------------------------------------------------------------ groups
\* A group is [id, name, parent]; parent = None means a top-level group.
Group(id, name, parent) == [id |-> id, name |-> name, parent |-> parent]

\* Group trees a manifest on disk may hold before the first run.
InitGroupSets ==
    { {},
      {Group(1, "PodPeace", None)},
      {Group(1, "PodPeace", None), Group(2, "Views", 1)},
      {Group(1, "PodPeace", None), Group(2, "Views", 1), Group(3, "Episode", 2)},
      {Group(1, "PodPeace", None), Group(2, "PodPeace", None), Group(3, "Views", 2)},
      {Group(1, "Views", None), Group(2, "Episode", 1)} }

SeqsUpTo(S, n) == UNION { [1..k -> S] : k \in 0..n }

Max(S) == IF S = {} THEN 0 ELSE CHOOSE m \in S : \A x \in S : x <= m
Min(S) == CHOOSE m \in S : \A x \in S : m <= x

\* The file entries a manifest may hold before the first run: the file is
\* absent, or registered under an Episode group for one of the targets.
InitFileSets(ts, gs) ==
    {{}} \cup { {[path |-> file_path, group |-> g.id, target |-> ts[k]]} :
                  g \in {h \in gs : h.name = "Episode"}, k \in 1..Len(ts) }

InitManifests ==
    UNION { UNION { { [state |-> "ok", targets |-> ts, groups |-> gs, files |-> fs] :
                      fs \in InitFileSets(ts, gs) } :
                    gs \in InitGroupSets } :
            ts \in SeqsUpTo(TargetNames, MaxTargets) }

VARIABLES
    disk,         \* the manifest file at project_path
    project,      \* the in-memory XcodeProject (NoProject before load)
    loaded,       \* what load() read in this run
    targets,      \* line 14
    main_target,  \* lines 15-22: an index into targets, None if unset
    i,            \* position of the for loop of line 16
    groupStack,   \* groups returned by the nested get_or_create_group calls
    result,       \* line 28: "unset", "truthy" or "falsy"
    events,       \* library calls and printed lines of this run, in order
    pc,           \* the statement about to run
    run,          \* how many times the script has been started
    prevSaved,    \* the previous run ended with 'Project saved successfully'
    used          \* the groups get_or_create_group has returned, over all runs

vars == <<disk, project, loaded, targets, main_target, i, groupStack, result,
          events, pc, run, prevSaved, used>>

Init ==
    /\ disk \in InitManifests \cup {BadManifest}
    /\ project = NoProject
    /\ loaded = NoProject
    /\ targets = <<>>
    /\ main_target = None
    /\ i = 1
    /\ groupStack = <<>>
    /\ result = "unset"
    /\ events = <<>>
    /\ pc = "load"
    /\ run = 1
    /\ prevSaved = FALSE
    /\ used = {}

Call(op, args, ret) == [kind |-> "call", op |-> op, args |-> args, ret |-> ret]
Line(text) == [kind |-> "print", line |-> text]

\* line 8: project = XcodeProject.load(project_path)
Load ==
    /\ pc = "load"
    /\ disk # BadManifest
    /\ project' = disk
    /\ loaded' = disk
    /\ events' = Append(events, Call("load", <<>>, "project"))
    /\ pc' = "get_targets"
    /\ UNCHANGED <<disk, targets, main_target, i, groupStack, result, run, prevSaved, used>>

\* line 8 raising: nothing catches it
LoadRaise ==
    /\ pc = "load"
    /\ disk = BadManifest
    /\ events' = Append(events, Call("load", <<>>, "raise"))
    /\ pc' = "crashed"
    /\ UNCHANGED <<disk, project, loaded, targets, main_target, i, groupStack,
                   result, run, prevSaved, used>>

\* lines 14-15: targets = project.objects.get_targets(); main_target = None
GetTargets ==
    /\ pc = "get_targets"
    /\ targets' = project.targets
    /\ main_target' = None
    /\ i' = 1
    /\ events' = Append(events, Call("get_targets", <<>>, project.targets))
    /\ pc' = "for"
    /\ UNCHANGED <<disk, project, loaded, groupStack, result, run, prevSaved, used>>

\* ForStep without the break of line 19: the loop runs on after a match.
ForStep_NoBreak ==
    /\ pc = "for"
    /\ IF i > Len(targets)
         THEN /\ pc' = "fallback"
              /\ UNCHANGED <<main_target, i>>
         ELSE /\ main_target' = IF targets[i] = MainName THEN i ELSE main_target
              /\ i' = i + 1
              /\ UNCHANGED pc
    /\ UNCHANGED <<disk, project, loaded, targets, groupStack, result, events,
                   run, prevSaved, used>>

\* lines 16-19: one iteration of the for loop (or its exhaustion)
ForStep ==
    /\ pc = "for"
    /\ IF i > Len(targets)
         THEN /\ pc' = "fallback"
              /\ UNCHANGED <<main_target, i>>
         ELSE IF targets[i] = MainName
           THEN /\ main_target' = i
                /\ pc' = "fallback"
                /\ UNCHANGED i
           ELSE /\ i' = i + 1
                /\ UNCHANGED <<main_target, pc>>
    /\ UNCHANGED <<disk, project, loaded, targets, groupStack, result, events,
                   run, prevSaved, used>>

\* Fallback taking targets[-1] instead of targets[0].
Fallback_Last ==
    /\ pc = "fallback"
    /\ IF main_target = None /\ targets # <<>>
         THEN /\ main_target' = Len(targets)
              /\ events' = Append(events, Line("Using target: " \o targets[Len(targets)]))
         ELSE UNCHANGED <<main_target, events>>
    /\ pc' = "if_main_target"
    /\ UNCHANGED <<disk, project, loaded, targets, i, groupStack, result, run,
                   prevSaved, used>>

\* lines 21-23: if main_target is None and targets: fall back to targets[0]
Fallback ==
    /\ pc = "fallback"
    /\ IF main_target = None /\ targets # <<>>
         THEN /\ main_target' = 1
              /\ events' = Append(events, Line("Using target: " \o targets[1]))
         ELSE UNCHANGED <<main_target, events>>
    /\ pc' = "if_main_target"
    /\ UNCHANGED <<disk, project, loaded, targets, i, groupStack, result, run,
                   prevSaved, used>>

\* IfMainTarget with the test of line 25 dropped.
IfMainTarget_Always ==
    /\ pc = "if_main_target"
    /\ pc' = "group_PodPeace"
    /\ UNCHANGED <<disk, project, loaded, targets, main_target, i, groupStack,
                   result, events, run, prevSaved, used>>

\* line 25 / line 40: if main_target: ... else: ...
\* (a target object is truthy; None is not)
IfMainTarget ==
    /\ pc = "if_main_target"
    /\ pc' = IF main_target # None THEN "group_PodPeace" ELSE "print_no_target"
    /\ UNCHANGED <<disk, project, loaded, targets, main_target, i, groupStack,
                   result, events, run, prevSaved, used>>

\* ------------------------------------------------- the library's groups
GroupsByName(p, name, parent) ==
    {g \in p.groups : g.name = name /\ g.parent = parent}

\* GetOrCreateGroup that never looks for an existing group.
GetOrCreateGroup_AlwaysCreate(p, name, parent) ==
    LET fresh == Group(Max({g.id : g \in p.groups}) + 1, name, parent)
    IN  [project |-> [p EXCEPT !.groups = @ \cup {fresh}], group |-> fresh]

\* get_or_create_group(name, parent=parent): the first group of that name
\* under the parent if there is one, else a new group added under it.
GetOrCreateGroup(p, name, parent) ==
    LET found == GroupsByName(p, name, parent)
        fresh == Group(Max({g.id : g \in p.groups}) + 1, name, parent)
    IN  IF found # {}
          THEN [project |-> p,
                group |-> CHOOSE g \in found : g.id = Min({h.id : h \in found})]
          ELSE [project |-> [p EXCEPT !.groups = @ \cup {fresh}], group |-> fresh]

\* One of the nested calls of line 30, innermost first.
GroupCall(at, name, parent, then) ==
    /\ pc = at
    /\ LET r == GetOrCreateGroup(project, name, parent)
       IN  /\ project' = r.project
           /\ groupStack' = Append(groupStack, r.group.id)
           /\ used' = used \cup {r.group}
           /\ events' = Append(events,
                  Call("get_or_create_group", <<name, parent>>, r.group.id))
    /\ pc' = then
    /\ UNCHANGED <<disk, loaded, targets, main_target, i, result, run, prevSaved>>

\* line 30: project.get_or_create_group('PodPeace')
GroupPodPeace == GroupCall("group_PodPeace", "PodPeace", None, "group_Views")

\* line 30: project.get_or_create_group('Views', parent=<PodPeace group>)
GroupViews == GroupCall("group_Views", "Views", groupStack[1], "group_Episode")

\* line 30: project.get_or_create_group('Episode', parent=<Views group>)
GroupEpisode == GroupCall("group_Episode", "Episode", groupStack[2], "add_file")

\* ------------------------------------------------ the library's add_file
FilePresent(p, path, target_name) ==
    \E f \in p.files : f.path = path /\ f.target = target_name

\* AddFileOutcomes that registers the path whether or not it is present.
AddFileOutcomes_Force(p, path, group, target_name) ==
    {[project |-> [p EXCEPT !.files = @ \cup
          {[path |-> path, group |-> group, target |-> target_name]}],
      result |-> "truthy"],
     [project |-> p, result |-> "falsy"]}

\* add_file(path, parent=group, target_name=name): falsy and no change when
\* the path is already registered under the target; otherwise the file is
\* registered (truthy) or the library gives up for another reason (falsy).
AddFileOutcomes(p, path, group, target_name) ==
    IF FilePresent(p, path, target_name)
      THEN {[project |-> p, result |-> "falsy"]}
      ELSE {[project |-> [p EXCEPT !.files = @ \cup
                 {[path |-> path, group |-> group, target |-> target_name]}],
             result |-> "truthy"],
            [project |-> p, result |-> "falsy"]}

\* AddFile naming the first target instead of the selected one.
AddFile_FirstTarget ==
    /\ pc = "add_file"
    /\ \E o \in AddFileOutcomes(project, file_path, groupStack[3], targets[1]) :
         /\ project' = o.project
         /\ result' = o.result
         /\ events' = Append(events,
                Call("add_file", <<file_path, groupStack[3], targets[1]>>, o.result))
    /\ pc' = "if_result"
    /\ UNCHANGED <<disk, loaded, targets, main_target, i, groupStack, run,
                   prevSaved, used>>

\* lines 28-32: result = project.add_file(file_path, parent=..., target_name=...)
AddFile ==
    /\ pc = "add_file"
    /\ \E o \in AddFileOutcomes(project, file_path, groupStack[3], targets[main_target]) :
         /\ project' = o.project
         /\ result' = o.result
         /\ events' = Append(events,
                Call("add_file", <<file_path, groupStack[3], targets[main_target]>>,
                     o.result))
    /\ pc' = "if_result"
    /\ UNCHANGED <<disk, loaded, targets, main_target, i, groupStack, run, prevSaved, used>>

\* PrintSuccess with the test of line 34 dropped.
PrintSuccess_Unconditional ==
    /\ pc = "if_result"
    /\ events' = Append(events,
           Line("Successfully added " \o file_path \o " to project"))
    /\ pc' = "save"
    /\ UNCHANGED <<disk, project, loaded, targets, main_target, i, groupStack,
                   result, run, prevSaved, used>>

\* lines 34-35: if result: print(f"Successfully added {file_path} to project")
PrintSuccess ==
    /\ pc = "if_result"
    /\ result = "truthy"
    /\ events' = Append(events,
           Line("Successfully added " \o file_path \o " to project"))
    /\ pc' = "save"
    /\ UNCHANGED <<disk, project, loaded, targets, main_target, i, groupStack,
                   result, run, prevSaved, used>>

\* line 36: project.save() returning
Save ==
    /\ pc = "save"
    /\ disk' = project
    /\ events' = Append(events, Call("save", <<>>, "ok"))
    /\ pc' = "print_saved"
    /\ UNCHANGED <<project, loaded, targets, main_target, i, groupStack, result,
                   run, prevSaved, used>>

\* SaveRaise with the exception swallowed: the script carries on to line 37.
SaveRaise_Swallowed ==
    /\ pc = "save"
    /\ disk' \in {disk, BadManifest}
    /\ events' = Append(events, Call("save", <<>>, "raise"))
    /\ pc' = "print_saved"
    /\ UNCHANGED <<project, loaded, targets, main_target, i, groupStack, result,
                   run, prevSaved, used>>

\* SaveRaise inside a try/except that reports the failure and goes on.
SaveRaise_Caught ==
    /\ pc = "save"
    /\ disk' \in {disk, BadManifest}
    /\ events' = Append(Append(events, Call("save", <<>>, "raise")),
           Line("Failed to add file - it may already exist in the project"))
    /\ pc' = "done"
    /\ UNCHANGED <<project, loaded, targets, main_target, i, groupStack, result,
                   run, prevSaved, used>>

\* line 36: project.save() raising; nothing catches it, and the file is left
\* as it was or unreadable
SaveRaise ==
    /\ pc = "save"
    /\ disk' \in {disk, BadManifest}
    /\ events' = Append(events, Call("save", <<>>, "raise"))
    /\ pc' = "crashed"
    /\ UNCHANGED <<project, loaded, targets, main_target, i, groupStack, result,
                   run, prevSaved, used>>

\* PrintSaved when the else of line 38 is lost: line 39 runs as well.
PrintSaved_NoElse ==
    /\ pc = "print_saved"
    /\ events' = Append(Append(events, Line("Project saved successfully")),
           Line("Failed to add file - it may already exist in the project"))
    /\ pc' = "done"
    /\ UNCHANGED <<disk, project, loaded, targets, main_target, i, groupStack,
                   result, run, prevSaved, used>>

\* line 37: print("Project saved successfully")
PrintSaved ==
    /\ pc = "print_saved"
    /\ events' = Append(events, Line("Project saved successfully"))
    /\ pc' = "done"
    /\ UNCHANGED <<disk, project, loaded, targets, main_target, i, groupStack,
                   result, run, prevSaved, used>>

\* lines 38-39: else: print("Failed to add file - it may already exist ...")
PrintFailed ==
    /\ pc = "if_result"
    /\ result # "truthy"
    /\ events' = Append(events,
           Line("Failed to add file - it may already exist in the project"))
    /\ pc' = "done"
    /\ UNCHANGED <<disk, project, loaded, targets, main_target, i, groupStack,
                   result, run, prevSaved, used>>

\* lines 40-41: else: print("No target found in the project")
PrintNoTarget ==
    /\ pc = "print_no_target"
    /\ events' = Append(events, Line("No target found in the project"))
    /\ pc' = "done"
    /\ UNCHANGED <<disk, project, loaded, targets, main_target, i, groupStack,
                   result, run, prevSaved, used>>

\* The script is started again on whatever the last run left on disk.
NewRun ==
    /\ pc \in {"done", "crashed"}
    /\ run < MaxRuns
    /\ run' = run + 1
    /\ prevSaved' = (pc = "done" /\ result = "truthy")
    /\ project' = NoProject
    /\ loaded' = NoProject
    /\ targets' = <<>>
    /\ main_target' = None
    /\ i' = 1
    /\ groupStack' = <<>>
    /\ result' = "unset"
    /\ events' = <<>>
    /\ pc' = "load"
    /\ UNCHANGED <<disk, used>>

\* One statement of the running script.
Step ==
    \/ Load \/ LoadRaise \/ GetTargets \/ ForStep \/ Fallback \/ IfMainTarget
    \/ GroupPodPeace \/ GroupViews \/ GroupEpisode \/ AddFile
    \/ PrintSuccess \/ Save \/ SaveRaise \/ PrintSaved \/ PrintFailed
    \/ PrintNoTarget

Next ==
    \/ Load \/ LoadRaise \/ GetTargets \/ ForStep \/ Fallback \/ IfMainTarget
    \/ GroupPodPeace \/ GroupViews \/ GroupEpisode \/ AddFile
    \/ PrintSuccess \/ Save \/ SaveRaise \/ PrintSaved \/ PrintFailed
    \/ PrintNoTarget \/ NewRun


Spec == Init /\ [][Next]_vars

\* The interpreter runs a started script to its end; nothing schedules a new run.
LiveSpec == Init /\ [][Next]_vars /\ WF_vars(Step)
\* ------------------------------------------------------ reading the log
CallPositions(op) ==
    {k \in 1..Len(events) : events[k].kind = "call" /\ events[k].op = op}

LinePositions(text) ==
    {k \in 1..Len(events) : events[k].kind = "print" /\ events[k].line = text}

IsCall(e) == e.kind = "call"
IsPrint(e) == e.kind = "print"
CallSeq == SelectSeq(events, IsCall)
PrintSeq == SelectSeq(events, IsPrint)

SuccessLine == "Successfully added PodPeace/Views/Episode/EpisodeDetailView.swift to project"
SavedLine == "Project saved successfully"
FailedLine == "Failed to add file - it may already exist in the project"
NoTargetLine == "No target found in the project"

FallbackPositions ==
    UNION { LinePositions("Using target: " \o n) : n \in TargetNames }

MutatingCallPositions ==
    CallPositions("get_or_create_group") \cup CallPositions("add_file")
        \cup CallPositions("save")

\* Positions in the fetched target list of the targets named exactly 'PodPeace'.
NamedPositions == {k \in 1..Len(targets) : targets[k] = "PodPeace"}

\* Lines 14-23 have run to their end in this run.
SelectionDone ==
    /\ CallPositions("get_targets") # {}
    /\ pc \notin {"for", "fallback"}

\* C1: when the target list holds a target named exactly 'PodPeace', the
\* selected target is the first such target in stored order, wherever it
\* stands, and no 'Using target: ...' line is printed.
C1_NamedTargetSelected ==
    NamedPositions # {} =>
        /\ FallbackPositions = {}
        /\ SelectionDone => main_target = Min(NamedPositions)

C1_Witness ==
    /\ SelectionDone
    /\ Len(targets) = 3
    /\ targets[1] # "PodPeace" /\ targets[2] # "PodPeace" /\ targets[3] = "PodPeace"
    /\ main_target = 3
    /\ pc = "done"

\* C2: when the target list is non-empty and holds no target named 'PodPeace',
\* the first target is selected and 'Using target: <its name>' is printed
\* before any group, add_file or save call; the line is printed in this case
\* only, and once.
C2_FallbackToFirst ==
    LET noNamed == targets # <<>> /\ NamedPositions = {}
    IN  /\ (SelectionDone /\ noNamed) => (main_target = 1 /\ FallbackPositions # {})
        /\ FallbackPositions # {} =>
             /\ noNamed
             /\ main_target = 1
             /\ FallbackPositions = LinePositions("Using target: " \o targets[1])
             /\ Cardinality(FallbackPositions) = 1
             /\ \A k \in FallbackPositions : \A m \in MutatingCallPositions : k < m

C2_Witness ==
    /\ pc = "done"
    /\ Len(targets) = 2
    /\ NamedPositions = {}
    /\ targets[1] # targets[2]
    /\ FallbackPositions # {}
    /\ CallPositions("add_file") # {}

\* C3: when the loaded manifest has no targets, no get_or_create_group,
\* add_file or save call is made, the manifest in memory and on disk stays as
\* loaded, and the only line printed is 'No target found in the project'.
C3_NoTargets ==
    (loaded.state = "ok" /\ loaded.targets = <<>>) =>
        /\ MutatingCallPositions = {}
        /\ project = loaded
        /\ disk = loaded
        /\ PrintSeq = IF pc = "done" THEN <<Line(NoTargetLine)>> ELSE <<>>
        /\ pc # "crashed"

C3_Witness ==
    /\ pc = "done"
    /\ loaded.state = "ok"
    /\ loaded.targets = <<>>
    /\ loaded.groups # {}
    /\ PrintSeq = <<Line(NoTargetLine)>>

\* C4: save is called at most once in a run and only after add_file has
\* returned truthy; when add_file returns falsy no save is attempted, the
\* manifest on disk is as loaded (whatever groups were created in memory) and
\* the 'Failed to add file' line is printed.
C4_SaveOnlyOnSuccess ==
    /\ Cardinality(CallPositions("save")) <= 1
    /\ \A s \in CallPositions("save") :
         \E a \in CallPositions("add_file") : a < s /\ events[a].ret = "truthy"
    /\ (\E a \in CallPositions("add_file") : events[a].ret = "falsy") =>
         /\ CallPositions("save") = {}
         /\ disk = loaded
         /\ LinePositions(SuccessLine) = {}
         /\ pc = "done" => LinePositions(FailedLine) # {}

C4_Witness ==
    /\ pc = "done"
    /\ result = "falsy"
    /\ project.groups # loaded.groups
    /\ disk = loaded
    /\ LinePositions(FailedLine) # {}

\* C5: when add_file returns truthy and save completes, the 'Successfully
\* added ...' line, the save and the 'Project saved successfully' line happen
\* in this order; 'Project saved successfully' is never printed in a run whose
\* save did not complete.
C5_SuccessOrder ==
    LET okSaves == {k \in CallPositions("save") : events[k].ret = "ok"}
    IN  /\ \A c \in LinePositions(SavedLine) :
             \E a \in LinePositions(SuccessLine), b \in okSaves : a < b /\ b < c
        /\ \A b \in okSaves : \E a \in LinePositions(SuccessLine) : a < b
        /\ (pc = "done" /\ result = "truthy") =>
             /\ Len(events) >= 3
             /\ events[Len(events) - 2] = Line(SuccessLine)
             /\ events[Len(events) - 1] = Call("save", <<>>, "ok")
             /\ events[Len(events)] = Line(SavedLine)

C5_Witness ==
    /\ pc = "done"
    /\ result = "truthy"
    /\ disk # loaded
    /\ disk = project
    /\ LinePositions(SavedLine) # {}
\* C6: when the file is already registered in the loaded manifest under the
\* chosen target, add_file returns falsy, no save occurs and the 'may already
\* exist' line is printed; so a run started on the manifest that a successful
\* run saved leaves the manifest on disk as it found it.
C6_AlreadyPresent ==
    /\ (\E a \in CallPositions("add_file") :
            \E f \in loaded.files :
                f.path = events[a].args[1] /\ f.target = events[a].args[3]) =>
         /\ result = "falsy"
         /\ CallPositions("save") = {}
         /\ disk = loaded
         /\ pc \in {"if_result", "done"}
         /\ pc = "done" => PrintSeq[Len(PrintSeq)] = Line(FailedLine)
    /\ (prevSaved /\ pc \in {"done", "crashed"}) =>
         /\ pc = "done"
         /\ disk = loaded
         /\ CallPositions("save") = {}
         /\ LinePositions(FailedLine) # {}

C6_Witness ==
    /\ run = 2
    /\ prevSaved
    /\ pc = "done"
    /\ result = "falsy"
    /\ disk = loaded
    /\ \E f \in disk.files : f.path = file_path /\ f.target = targets[main_target]

\* C7: a raising save is not caught: the run ends crashed, neither 'Project
\* saved successfully' nor 'Failed to add file' is printed, save is not tried
\* again, and 'Successfully added ...' was printed before the failing save.
C7_SaveFailureCrashes ==
    LET raised == {k \in CallPositions("save") : events[k].ret = "raise"}
    IN  raised # {} =>
          /\ pc = "crashed"
          /\ LinePositions(SavedLine) = {}
          /\ LinePositions(FailedLine) = {}
          /\ CallPositions("save") = raised
          /\ Cardinality(raised) = 1
          /\ \A k \in raised :
               /\ k = Len(events)
               /\ \E a \in LinePositions(SuccessLine) : a < k

C7_Witness ==
    /\ pc = "crashed"
    /\ \E k \in CallPositions("save") : events[k].ret = "raise"
    /\ LinePositions(SuccessLine) # {}
    /\ disk = BadManifest

\* C8: group resolution reuses the PodPeace/Views/Episode chain: the groups
\* the script has used or created form one chain in the manifest (at most
\* one top-level 'PodPeace', one 'Views' under it, one 'Episode' under that,
\* over any number of runs), an existing chain is used without adding a group,
\* and a group is created only where its parent has none of that name.
UsedIn(m, name) == {g \in used \cap m.groups : g.name = name}

OneChain(m) ==
    /\ Cardinality(UsedIn(m, "PodPeace")) <= 1
    /\ Cardinality(UsedIn(m, "Views")) <= 1
    /\ Cardinality(UsedIn(m, "Episode")) <= 1
    /\ \A g \in UsedIn(m, "PodPeace") : g.parent = None
    /\ \A g \in UsedIn(m, "Views") :
         \E h \in UsedIn(m, "PodPeace") : g.parent = h.id
    /\ \A g \in UsedIn(m, "Episode") :
         \E h \in UsedIn(m, "Views") : g.parent = h.id

HasChain(m) ==
    \E a, b, c \in m.groups :
        /\ a.name = "PodPeace" /\ a.parent = None
        /\ b.name = "Views" /\ b.parent = a.id
        /\ c.name = "Episode" /\ c.parent = b.id

C8_GroupsState ==
    /\ OneChain(disk)
    /\ OneChain(project)
    /\ Len(groupStack) = 3 =>
         /\ HasChain(project)
         /\ \E a, b, c \in used \cap project.groups :
              /\ a.id = groupStack[1] /\ a.name = "PodPeace" /\ a.parent = None
              /\ b.id = groupStack[2] /\ b.name = "Views" /\ b.parent = a.id
              /\ c.id = groupStack[3] /\ c.name = "Episode" /\ c.parent = b.id
         /\ HasChain(loaded) => project.groups = loaded.groups

C8_GroupsStep ==
    pc # "load" =>
        \A g \in project'.groups \ project.groups :
            ~ \E h \in project.groups : h.name = g.name /\ h.parent = g.parent

C8_GroupChainReused == [](C8_GroupsState) /\ [][C8_GroupsStep]_vars

C8_Witness ==
    /\ run = 2
    /\ pc = "done"
    /\ Len(groupStack) = 3
    /\ HasChain(loaded)
    /\ project.groups = loaded.groups
    /\ Cardinality({g \in project.groups : g.name = "PodPeace"}) = 2

\* C9: in a run that selects a target the library calls are, in order: load,
\* get_targets, get_or_create_group('PodPeace') without parent,
\* get_or_create_group('Views') under the group just returned,
\* get_or_create_group('Episode') under the group just returned, then one
\* add_file under that Episode group for the selected target's name; no group
\* call is made before target selection has finished.
C9_CallOrder ==
    LET c == CallSeq
        n == Len(c)
        selected == IF NamedPositions # {} THEN Min(NamedPositions) ELSE 1
    IN  /\ n >= 1 => c[1].op = "load"
        /\ n >= 2 => c[2].op = "get_targets"
        /\ n >= 3 => /\ c[3].op = "get_or_create_group"
                     /\ c[3].args = <<"PodPeace", None>>
                     /\ SelectionDone
                     /\ main_target = selected
                     /\ targets # <<>>
        /\ n >= 4 => /\ c[4].op = "get_or_create_group"
                     /\ c[4].args = <<"Views", c[3].ret>>
        /\ n >= 5 => /\ c[5].op = "get_or_create_group"
                     /\ c[5].args = <<"Episode", c[4].ret>>
        /\ n >= 6 => /\ c[6].op = "add_file"
                     /\ c[6].args = <<"PodPeace/Views/Episode/EpisodeDetailView.swift",
                                      c[5].ret, targets[selected]>>
        /\ n >= 7 => /\ c[7].op = "save"
                     /\ n = 7
        /\ (pc = "done" /\ main_target # None) => n >= 6
        /\ \A k \in FallbackPositions :
             \A m \in CallPositions("get_or_create_group") : k < m

C9_Witness ==
    /\ pc = "done"
    /\ Len(CallSeq) = 7
    /\ main_target = 2
    /\ targets[1] # targets[2]

\* C10: a run in which no library call raises ends, having printed exactly
\* one of 'Project saved successfully', 'Failed to add file - it may already
\* exist in the project' and 'No target found in the project', as its last
\* line: the first when a target was selected and add_file was truthy, the
\* second when a target was selected and add_file was falsy, the third when
\* no target was selected.
TerminalLines == {SavedLine, FailedLine, NoTargetLine}

TerminalPositions == UNION { LinePositions(t) : t \in TerminalLines }

C10_Outcome ==
    /\ pc # "done" => TerminalPositions = {}
    /\ pc = "done" =>
         /\ TerminalPositions = {Len(events)}
         /\ events[Len(events)].line =
              IF main_target = None THEN NoTargetLine
              ELSE IF result = "truthy" THEN SavedLine
              ELSE FailedLine
         /\ main_target = None => result = "unset"
         /\ main_target # None => result \in {"truthy", "falsy"}

C10_Terminates ==
    /\ [](C10_Outcome)
    /\ \A r \in 1..MaxRuns :
         (pc = "load" /\ run = r) ~> (pc \in {"done", "crashed"} /\ run = r)

C10_Witness ==
    /\ pc = "done"
    /\ run = 2
    /\ main_target = None
    /\ events[Len(events)] = Line(NoTargetLine)
====
